---- MODULE Spec2Model ----
(***************************************************************************)
(* Model of Music/Downloader.py (class Downloader): identifier            *)
(* classification, Spotify collection expansion (extract_info), the        *)
(* resolve paths (__download_url / __download_title), the synchronous      *)
(* finish_one_song and the asynchronous download_song prefetch.            *)
(*                                                                         *)
(* Strings are sequences of tokens.  A token is a piece of text that the   *)
(* regular expressions and substring tests of the source treat as a unit:  *)
(* a scheme, a host-and-path prefix, a run of [A-Za-z0-9] characters, or a *)
(* single character outside that class.                                    *)
(***************************************************************************)
EXTENDS Integers, Sequences, FiniteSets, TLC

(***************************************************************************)
(* Bounds of the model.                                                    *)
(***************************************************************************)
NumSongs == 2
MaxCalls == 2
MaxItems == 2
MaxFailAt == 3

(***************************************************************************)
(* The two caps are read from VConfigs, which sets their values outside    *)
(* this file; the model takes a cap of one worker and of sixty tracks.     *)
(* The other numbers are literals of the source.                           *)
(***************************************************************************)
MAX_PRELOAD_SONGS == 1
MAX_PLAYLIST_LENGTH == 60
PlaylistPageLimit == 100
AlbumPageLimit == 50
SearchLimit == 5
PreviewDuration == 30

(***************************************************************************)
(* Text values.                                                            *)
(***************************************************************************)
None == <<"<None>">>
EmptyStr == <<>>

Truthy(v) == v # None /\ v # EmptyStr

Schemes == {"https://", "http://"}
TrackPrefixes == {"open.spotify.com/track/", "play.spotify.com/track/"}
PlaylistPrefixes == {"open.spotify.com/playlist/", "play.spotify.com/playlist/"}
AlbumPrefixes == {"open.spotify.com/album/", "play.spotify.com/album/"}
AssetHosts == {"audio.scdn.co", "p.scdn.co"}
OtherTokens == {"<None>", "www.youtube.com/watch?v=", "open.spotify.com/intl-pt/track/",
                "/mp3-preview/", " ", "-", "?", "name:"}

\* the tokens that are not a run of [A-Za-z0-9] characters
NonAlnum ==
    Schemes \cup TrackPrefixes \cup PlaylistPrefixes \cup AlbumPrefixes
        \cup AssetHosts \cup OtherTokens

IsAlnum(tok) == tok \notin NonAlnum

Min(a, b) == IF a < b THEN a ELSE b

(***************************************************************************)
(* re.compile(prefix + "([A-Za-z0-9]+)").search(url): the leftmost         *)
(* position where a prefix token is followed by at least one alnum token,  *)
(* 0 when there is none; group(1) is the maximal alnum run after it.       *)
(***************************************************************************)
MatchesAt(prefixes, url, p) ==
    /\ p + 1 <= Len(url)
    /\ url[p] \in prefixes
    /\ IsAlnum(url[p + 1])

ReSearch(prefixes, url) ==
    IF \E p \in 1..Len(url) : MatchesAt(prefixes, url, p)
    THEN CHOOSE p \in 1..Len(url) :
            /\ MatchesAt(prefixes, url, p)
            /\ \A q \in 1..(p - 1) : ~MatchesAt(prefixes, url, q)
    ELSE 0

RunEnd(url, from) ==
    CHOOSE e \in from..Len(url) :
        /\ \A i \in from..e : IsAlnum(url[i])
        /\ (e = Len(url) \/ ~IsAlnum(url[e + 1]))

Group1(prefixes, url) ==
    LET p == ReSearch(prefixes, url)
    IN  IF p = 0 THEN None ELSE SubSeq(url, p + 1, RunEnd(url, p + 1))

_is_spotify_track_url(url) == ReSearch(TrackPrefixes, url) # 0

_is_spotify_url(url) ==
    \/ ReSearch(TrackPrefixes, url) # 0
    \/ ReSearch(PlaylistPrefixes, url) # 0
    \/ ReSearch(AlbumPrefixes, url) # 0

_extract_spotify_track_id(url) == Group1(TrackPrefixes, url)
_extract_spotify_playlist_id(url) == Group1(PlaylistPrefixes, url)
_extract_spotify_album_id(url) == Group1(AlbumPrefixes, url)

BuildLocalizedTrackUrl(track_id) ==
    <<"https://", "open.spotify.com/intl-pt/track/">> \o track_id

_build_spotify_track_url(track_id) ==
    <<"https://", "open.spotify.com/track/">> \o track_id

\* "audio.scdn.co" in url or "p.scdn.co" in url
ContainsAssetHost(url) == \E p \in 1..Len(url) : url[p] \in AssetHosts

\* Utils.is_url on a string: a scheme followed by at least one character
is_url(s) == \E p \in 1..Len(s) : s[p] \in Schemes /\ p < Len(s)

(***************************************************************************)
(* The provider (spotipy client) as seen by the code.  A catalog track    *)
(* object carries an id, a name and a preview_url that is a URL, None or   *)
(* the empty string.  How the provider answers one call is an input of the *)
(* action that makes the call.                                             *)
(***************************************************************************)
PreviewKinds == {"preview", "nopreview", "emptypreview"}
TrackAnswers == PreviewKinds \cup {"null", "error"}

PreviewUrlOf(tid) == <<"https://", "p.scdn.co", "/mp3-preview/">> \o tid

TrackObj(tid, kind) ==
    [id |-> tid,
     name |-> <<"name:">> \o tid,
     preview_url |-> CASE kind = "preview" -> PreviewUrlOf(tid)
                       [] kind = "emptypreview" -> EmptyStr
                       [] OTHER -> None]

NullObj == [id |-> None, name |-> None, preview_url |-> None]

\* the i-th candidate of a search answer has catalog id <<"cand", i>>
CandidateId(i) == <<"cand", ToString(i)>>

ItemLists == UNION {[1..n -> PreviewKinds] : n \in 0..Min(MaxItems, SearchLimit)}
SearchAnswers == [error : {TRUE}, kinds : {<<>>}]
                    \cup [error : {FALSE}, kinds : ItemLists]

SearchItems(ans) == [i \in 1..Len(ans.kinds) |-> TrackObj(CandidateId(i), ans.kinds[i])]

(***************************************************************************)
(* Return values: a song_info dict, the empty dict {} and Python's None.   *)
(***************************************************************************)
EmptyDict == [kind |-> "empty"]
NoneInfo == [kind |-> "none"]

InfoDict(url, title) ==
    [kind |-> "info", url |-> url, title |-> title, duration |-> PreviewDuration]

IsInfo(r) == r.kind = "info"

NoCalls == <<>>
TrackCall(tid) == [op |-> "track", arg |-> tid, limit |-> 0]
SearchCall(q) == [op |-> "search", arg |-> q, limit |-> SearchLimit]

\* what a resolve path hands back: the returned dict, the provider calls it
\* made, whether an exception left it, whether one was raised at all inside
Outcome(info, calls, raised, failed) ==
    [info |-> info, calls |-> calls, raised |-> raised, failed |-> failed]

BuildAnyway(track_obj) == InfoDict(track_obj.preview_url, track_obj.name)

_build_spotify_preview_info(track_obj) ==
    IF ~Truthy(track_obj.preview_url)
    THEN NoneInfo
    ELSE InfoDict(track_obj.preview_url, track_obj.name)

_spotify_track_info_from_track_url(sp, url, answer) ==
    IF ~sp THEN Outcome(EmptyDict, NoCalls, FALSE, FALSE)
    ELSE LET track_id == _extract_spotify_track_id(url)
         IN  IF ~Truthy(track_id) THEN Outcome(EmptyDict, NoCalls, FALSE, FALSE)
             ELSE IF answer = "error"
                  THEN Outcome(EmptyDict, <<TrackCall(track_id)>>, FALSE, TRUE)
                  ELSE LET tr == IF answer = "null" THEN NullObj
                                 ELSE TrackObj(track_id, answer)
                           info == _build_spotify_preview_info(tr)
                       IN  IF IsInfo(info)
                           THEN Outcome(info, <<TrackCall(track_id)>>, FALSE, FALSE)
                           ELSE Outcome(EmptyDict, <<TrackCall(track_id)>>, FALSE, FALSE)

FirstCandidate(items, i) ==
    IF i > Len(items) THEN EmptyDict
    ELSE IF Truthy(items[i].preview_url) THEN BuildAnyway(items[i]) ELSE EmptyDict

RECURSIVE FirstWithPreview(_, _)
FirstWithPreview(items, i) ==
    IF i > Len(items) THEN EmptyDict
    ELSE LET info == _build_spotify_preview_info(items[i])
         IN  IF IsInfo(info) THEN info ELSE FirstWithPreview(items, i + 1)

__download_title(sp, title, answer) ==
    IF ~sp THEN Outcome(EmptyDict, NoCalls, FALSE, FALSE)
    ELSE IF answer.error
         THEN Outcome(EmptyDict, <<SearchCall(title)>>, FALSE, TRUE)
         ELSE Outcome(FirstWithPreview(SearchItems(answer), 1),
                      <<SearchCall(title)>>, FALSE, FALSE)

DownloadUrlClientFirst(sp, url, answer) ==
    IF ~sp THEN Outcome(EmptyDict, NoCalls, FALSE, FALSE)
    ELSE IF _is_spotify_track_url(url)
    THEN _spotify_track_info_from_track_url(sp, url, answer)
    ELSE IF ContainsAssetHost(url)
         THEN Outcome(InfoDict(url, <<"Spotify Preview">>), NoCalls, FALSE, FALSE)
         ELSE Outcome(EmptyDict, NoCalls, FALSE, FALSE)

DownloadUrlSearchFallback(sp, url, answer) ==
    IF _is_spotify_track_url(url)
    THEN _spotify_track_info_from_track_url(sp, url, answer)
    ELSE IF ContainsAssetHost(url)
         THEN Outcome(InfoDict(url, <<"Spotify Preview">>), NoCalls, FALSE, FALSE)
         ELSE __download_title(sp, url, [error |-> TRUE, kinds |-> <<>>])

__download_url(sp, url, answer) ==
    IF _is_spotify_track_url(url)
    THEN _spotify_track_info_from_track_url(sp, url, answer)
    ELSE IF ContainsAssetHost(url)
         THEN Outcome(InfoDict(url, <<"Spotify Preview">>), NoCalls, FALSE, FALSE)
         ELSE Outcome(EmptyDict, NoCalls, FALSE, FALSE)

\* the provider answers one operation may receive
NoSearchAnswer == [error |-> TRUE, kinds |-> <<>>]
NoAnswer == [track |-> "error", search |-> NoSearchAnswer, noneRaises |-> TRUE]

(***************************************************************************)
(* "if Utils.is_url(identifier): __download_url(...) else:                 *)
(* __download_title(...)", shared by finish_one_song and __download_func.  *)
(* Utils.is_url on None either raises or answers False.                    *)
(***************************************************************************)
Resolve(sp, identifier, ans) ==
    IF identifier = None /\ ans.noneRaises
    THEN Outcome(NoneInfo, NoCalls, TRUE, TRUE)
    ELSE IF identifier # None /\ is_url(identifier)
         THEN __download_url(sp, identifier, ans.track)
         ELSE __download_title(sp, identifier, ans.search)

\* The answers that are inputs of resolving an identifier: an answer to a call
\* the code does not make is no input and is held at a fixed value.  Which
\* call is made does not depend on how the provider answers it.
AnswersFor(client, identifier) ==
    LET asked == Resolve(client, identifier, [NoAnswer EXCEPT !.noneRaises = FALSE]).calls
        op == IF asked = NoCalls THEN "none" ELSE asked[1].op
    IN  [track : IF op = "track" THEN TrackAnswers ELSE {"error"},
         search : IF op = "search" THEN SearchAnswers ELSE {NoSearchAnswer},
         noneRaises : IF identifier = None THEN BOOLEAN ELSE {TRUE}]

(***************************************************************************)
(* Identifiers a caller may hand in.                                       *)
(***************************************************************************)
IdText == <<"hello", " ", "world">>
IdTrack == <<"https://", "open.spotify.com/track/", "abc">>
IdTrackPlay == <<"http://", "play.spotify.com/track/", "xyz", "?", "si">>
IdPlaylist == <<"https://", "open.spotify.com/playlist/", "pl1">>
IdAlbum == <<"https://", "play.spotify.com/album/", "al1", "?", "si">>
IdAsset == <<"https://", "p.scdn.co", "/mp3-preview/", "abc">>
IdAssetRef == <<"https://", "audio.scdn.co", "/mp3-preview/", "abc", "?",
                "open.spotify.com/track/", "abc">>
IdYoutube == <<"https://", "www.youtube.com/watch?v=", "vid">>
IdIntl == <<"https://", "open.spotify.com/intl-pt/track/", "abc">>
IdBareTrack == <<"open.spotify.com/track/", "abc">>
IdTrackNoId == <<"https://", "open.spotify.com/track/">>

IdentifierList ==
    <<None, IdTrack, IdText, IdAsset, IdPlaylist, IdTrackPlay, EmptyStr, IdAlbum,
      IdAssetRef, IdYoutube, IdIntl, IdBareTrack, IdTrackNoId>>

Identifiers == {IdentifierList[i] : i \in 1..Len(IdentifierList)}

\* the identifiers of the songs the queue hands to the prefetch
QueuedList == <<None, IdTrack, IdText, IdAsset, IdPlaylist>>

\* a queue of n songs: n consecutive identifiers of the list, from position k on
Window(list, k, i) == list[((k + i - 2) % Len(list)) + 1]

(***************************************************************************)
(* State.                                                                  *)
(***************************************************************************)
Songs == 1..NumSongs
Calls == 1..MaxCalls

VARIABLES
    sp,       \* self._sp is a client (TRUE) or None (FALSE)
    song,     \* the Song objects: identifier, source, status, info
    call,     \* the download_song invocations and their executor tasks
    last      \* the last synchronous operation: its inputs and what it returned

vars == <<sp, song, call, last>>

NewSong(identifier) ==
    [identifier |-> identifier, source |-> None, status |-> "Unresolved",
     info |-> EmptyDict]

IdleCall ==
    [pc |-> "idle", song |-> 0, task |-> FALSE, exc |-> "none", wrote |-> 0,
     calls |-> NoCalls, failed |-> FALSE, propagated |-> FALSE]

NoOp == [op |-> "none"]

\* Song.finish_down(info): the single mutator that applies a resolution outcome
finish_down(sg, info) ==
    IF IsInfo(info)
    THEN [sg EXCEPT !.source = info.url, !.status = "Resolved", !.info = info]
    ELSE [sg EXCEPT !.status = "Failed"]

\* Downloader.__init__ leaves _sp None when the credentials are missing or the
\* client cannot be built; the queue owns the songs
\* what __init__ finds: whether VConfigs.getSpotify() hands back a configuration
\* (it may raise or return None), the two credentials, and whether the client
\* library builds a client from them
Credentials ==
    [found : BOOLEAN,
     client_id : {None, EmptyStr, <<"id">>},
     client_secret : {None, EmptyStr, <<"secret">>},
     built : BOOLEAN]

ClientOfIdAlone(conf) == conf.found /\ Truthy(conf.client_id) /\ conf.built

\* self._sp after __init__: TRUE for a client, FALSE for None
ClientOf(conf) ==
    /\ conf.found
    /\ Truthy(conf.client_id)
    /\ Truthy(conf.client_secret)
    /\ conf.built

CredentialsAbsent(conf) ==
    ~conf.found \/ ~Truthy(conf.client_id) \/ ~Truthy(conf.client_secret)

InitWith(list) ==
    /\ \E conf \in Credentials : sp = ClientOf(conf)
    /\ \E k \in 1..Len(list) : song = [s \in Songs |-> NewSong(Window(list, k, s))]
    /\ call = [c \in Calls |-> IdleCall]
    /\ last = NoOp

Init == InitWith(QueuedList)

InitResolve == InitWith(IdentifierList)

(***************************************************************************)
(* finish_one_song(song)                                                   *)
(***************************************************************************)
FinishOneSong(s, ans) ==
    LET sg == song[s]
        out == IF sg.identifier = None
               THEN Outcome(NoneInfo, NoCalls, FALSE, FALSE)
               ELSE Resolve(sp, sg.identifier, ans)
    IN  /\ song' = IF sg.identifier = None \/ out.raised
                   THEN song
                   ELSE [song EXCEPT ![s] = finish_down(sg, out.info)]
        /\ last' = [op |-> "finish_one_song", song |-> s, before |-> sg,
                    ans |-> ans, out |-> out, raised |-> out.raised]
        /\ UNCHANGED <<sp, call>>

(***************************************************************************)
(* download_song(song): the coroutine, its executor and its task           *)
(***************************************************************************)
AlwaysDownload(sg) == FALSE

\* "if song.source is not None: return None"
AlreadyPreloaded(sg) == sg.source # None

\* "executor = ThreadPoolExecutor(max_workers=MAX_PRELOAD_SONGS)": every
\* invocation builds the executor its task is submitted to
ExecutorOf(c) == c

WorkersBusy(e) ==
    Cardinality({d \in Calls : call[d].pc = "running" /\ ExecutorOf(d) = e})

\* the invocations are numbered in the order they are made
DownloadSong(c, s) ==
    /\ call[c].pc = "idle"
    /\ IF c = 1 THEN TRUE ELSE call[c - 1].pc # "idle"
    /\ call' = [call EXCEPT ![c] =
                    IF AlreadyPreloaded(song[s])
                    THEN [IdleCall EXCEPT !.pc = "returned", !.song = s]
                    ELSE [IdleCall EXCEPT !.pc = "queued", !.song = s, !.task = TRUE]]
    /\ UNCHANGED <<sp, song, last>>

\* a worker thread of the executor takes the task
TaskStart(c) ==
    /\ call[c].pc = "queued"
    /\ WorkersBusy(ExecutorOf(c)) < MAX_PRELOAD_SONGS
    /\ call' = [call EXCEPT ![c].pc = "running"]
    /\ UNCHANGED <<sp, song, last>>

DownloadFuncUncaught(sg, out) ==
    IF out.raised
    THEN [song |-> sg, exc |-> "escaped", wrote |-> 0]
    ELSE [song |-> finish_down(sg, out.info), exc |-> "none", wrote |-> 1]

\* __download_func: try: resolve; song.finish_down(info)  except Exception: print
DownloadFunc(sg, out) ==
    IF out.raised
    THEN [song |-> sg, exc |-> "caught", wrote |-> 0]
    ELSE [song |-> finish_down(sg, out.info), exc |-> "none", wrote |-> 1]

TaskRun(c, ans) ==
    /\ call[c].pc = "running"
    /\ LET s == call[c].song
           out == Resolve(sp, song[s].identifier, ans)
           done == DownloadFunc(song[s], out)
       IN  /\ song' = [song EXCEPT ![s] = done.song]
           /\ call' = [call EXCEPT ![c].pc = "finished", ![c].exc = done.exc,
                                   ![c].wrote = done.wrote, ![c].calls = out.calls,
                                   ![c].failed = out.failed]
    /\ UNCHANGED <<sp, last>>

\* "await asyncio.wait(fs, return_when=ALL_COMPLETED)" returns the done set; it
\* does not re-raise what a future holds
AwaitDone(c) ==
    /\ call[c].pc = "finished"
    /\ call' = [call EXCEPT ![c].pc = "returned", ![c].propagated = FALSE]
    /\ UNCHANGED <<sp, song, last>>

Prefetch ==
    \/ \E c \in Calls, s \in Songs : DownloadSong(c, s)
    \/ \E c \in Calls : TaskStart(c)
    \/ \E c \in Calls :
        /\ call[c].pc = "running"
        /\ \E ans \in AnswersFor(sp, song[call[c].song].identifier) : TaskRun(c, ans)
    \/ \E c \in Calls : AwaitDone(c)

Next == Prefetch

Spec == Init /\ [][Next]_vars

\* finish_one_song returns before any call when the identifier is None
NextResolve ==
    \E s \in Songs :
        \E ans \in IF song[s].identifier = None THEN {NoAnswer}
                    ELSE AnswersFor(sp, song[s].identifier) :
            FinishOneSong(s, ans)

SpecResolve == InitResolve /\ [][NextResolve]_vars

(***************************************************************************)
(* Collections of the catalog.  An entry carries a track id, carries no id *)
(* (None), or is null.  A collection is given by its length and the        *)
(* pattern of its entries; the provider serves it in pages.                *)
(***************************************************************************)
NullItem == <<"<null>">>

Patterns == {"distinct", "repeats", "holes", "nulls"}

Entry(pattern, i) ==
    CASE pattern = "repeats" -> <<ToString(i % 3)>>
      [] pattern = "holes" /\ i % 4 = 2 -> None
      [] pattern = "nulls" /\ i % 64 = 3 -> NullItem
      [] OTHER -> <<ToString(i)>>

Collection(n, pattern) == [i \in 1..n |-> Entry(pattern, i)]

CollectionSizes ==
    {0, 1, AlbumPageLimit, MAX_PLAYLIST_LENGTH + 1, PlaylistPageLimit,
     PlaylistPageLimit + 1, PlaylistPageLimit + AlbumPageLimit,
     2 * PlaylistPageLimit + 1}

\* the page request that fails, counted from 1; 0 when none does
FailingRequests == 0..MaxFailAt

Catalogs == [n : CollectionSizes, pattern : Patterns, failAt : FailingRequests]

NoCatalog == [n |-> 0, pattern |-> "distinct", failAt |-> 0]

PageOverlap(coll, limit, offset) ==
    SubSeq(coll, IF offset = 0 THEN 1 ELSE offset, Min(offset + limit, Len(coll)))

\* sp.playlist_tracks / sp.album_tracks (id, limit=limit, offset=offset)
Page(coll, limit, offset) == SubSeq(coll, offset + 1, Min(offset + limit, Len(coll)))

HasId(entry) == entry # NullItem /\ Truthy(entry)

\* "for it in items: ... if tid: ids.append(tid)" of the playlist loop: a null
\* item or a null track yields no id
PlaylistPageIds(items) == [ids |-> SelectSeq(items, HasId), raised |-> FALSE]

\* "for tr in items: tid = tr.get('id')" of the album loop: a null item raises
\* after the ids before it were appended
AlbumPageIds(items) ==
    IF \E i \in 1..Len(items) : items[i] = NullItem
    THEN LET k == CHOOSE i \in 1..Len(items) :
                    /\ items[i] = NullItem
                    /\ \A j \in 1..(i - 1) : items[j] # NullItem
         IN  [ids |-> SelectSeq(SubSeq(items, 1, k - 1), HasId), raised |-> TRUE]
    ELSE [ids |-> SelectSeq(items, HasId), raised |-> FALSE]

FetchedOrNothing(ids, requests, failed) ==
    [ids |-> IF failed THEN <<>> ELSE ids, requests |-> requests, failed |-> failed]

Fetched(ids, requests, failed) == [ids |-> ids, requests |-> requests, failed |-> failed]

RECURSIVE PlaylistLoopUntilEmpty(_, _, _, _, _)
PlaylistLoopUntilEmpty(coll, failAt, offset, ids, requests) ==
    LET asked == Append(requests, offset)
        items == Page(coll, PlaylistPageLimit, offset)
        got == PlaylistPageIds(items)
    IN  IF Len(asked) = failAt THEN Fetched(ids, asked, TRUE)
        ELSE IF items = <<>> THEN Fetched(ids, asked, FALSE)
        ELSE PlaylistLoopUntilEmpty(coll, failAt, offset + PlaylistPageLimit,
                                    ids \o got.ids, asked)

\* the "while True" loop of _get_playlist_track_ids, from the request at
\* `offset` on; `requests` are the offsets asked for so far
RECURSIVE PlaylistLoop(_, _, _, _, _)
PlaylistLoop(coll, failAt, offset, ids, requests) ==
    LET asked == Append(requests, offset)
        items == Page(coll, PlaylistPageLimit, offset)
        got == PlaylistPageIds(items)
    IN  IF Len(asked) = failAt THEN Fetched(ids, asked, TRUE)
        ELSE IF items = <<>> THEN Fetched(ids, asked, FALSE)
        ELSE IF Len(items) < PlaylistPageLimit THEN Fetched(ids \o got.ids, asked, FALSE)
        ELSE PlaylistLoop(coll, failAt, offset + PlaylistPageLimit, ids \o got.ids, asked)

RECURSIVE AlbumLoop(_, _, _, _, _)
AlbumLoop(coll, failAt, offset, ids, requests) ==
    LET asked == Append(requests, offset)
        items == Page(coll, AlbumPageLimit, offset)
        got == AlbumPageIds(items)
    IN  IF Len(asked) = failAt THEN Fetched(ids, asked, TRUE)
        ELSE IF items = <<>> THEN Fetched(ids, asked, FALSE)
        ELSE IF got.raised THEN Fetched(ids \o got.ids, asked, TRUE)
        ELSE IF Len(items) < AlbumPageLimit THEN Fetched(ids \o got.ids, asked, FALSE)
        ELSE AlbumLoop(coll, failAt, offset + AlbumPageLimit, ids \o got.ids, asked)

Uncut(fetched) == fetched

\* "return ids[: self.__config.MAX_PLAYLIST_LENGTH]"
Cut(fetched) ==
    [fetched EXCEPT !.ids = SubSeq(fetched.ids, 1, Min(Len(fetched.ids), MAX_PLAYLIST_LENGTH))]

_get_playlist_track_ids(cat) ==
    Cut(PlaylistLoop(Collection(cat.n, cat.pattern), cat.failAt, 0, <<>>, <<>>))

_get_album_track_ids(cat) ==
    Cut(AlbumLoop(Collection(cat.n, cat.pattern), cat.failAt, 0, <<>>, <<>>))

Expanded(urls, requests, failed) == [urls |-> urls, requests |-> requests, failed |-> failed]

TrackUrls(tracks) == [i \in 1..Len(tracks) |-> _build_spotify_track_url(tracks[i])]

(***************************************************************************)
(* extract_info(url)                                                       *)
(***************************************************************************)
ExtractInfoTrackFirst(client, url, cat) ==
    IF url = EmptyStr THEN Expanded(<<>>, <<>>, FALSE)
    ELSE IF ~is_url(url) THEN Expanded(<<>>, <<>>, FALSE)
    ELSE IF ~_is_spotify_url(url) THEN Expanded(<<>>, <<>>, FALSE)
    ELSE IF Truthy(_extract_spotify_track_id(url))
         THEN Expanded(<<_build_spotify_track_url(_extract_spotify_track_id(url))>>,
                       <<>>, FALSE)
    ELSE IF ~client THEN Expanded(<<>>, <<>>, FALSE)
    ELSE IF Truthy(_extract_spotify_playlist_id(url))
         THEN LET got == _get_playlist_track_ids(cat)
              IN  Expanded(TrackUrls(got.ids), got.requests, got.failed)
    ELSE IF Truthy(_extract_spotify_album_id(url))
         THEN LET got == _get_album_track_ids(cat)
              IN  Expanded(TrackUrls(got.ids), got.requests, got.failed)
    ELSE Expanded(<<>>, <<>>, FALSE)

extract_info(client, url, cat) ==
    IF url = EmptyStr THEN Expanded(<<>>, <<>>, FALSE)
    ELSE IF ~is_url(url) THEN Expanded(<<>>, <<>>, FALSE)
    ELSE IF ~_is_spotify_url(url) THEN Expanded(<<>>, <<>>, FALSE)
    ELSE IF ~client THEN Expanded(<<>>, <<>>, FALSE)
    ELSE IF Truthy(_extract_spotify_track_id(url))
         THEN Expanded(<<_build_spotify_track_url(_extract_spotify_track_id(url))>>,
                       <<>>, FALSE)
    ELSE IF Truthy(_extract_spotify_playlist_id(url))
         THEN LET got == _get_playlist_track_ids(cat)
              IN  Expanded(TrackUrls(got.ids), got.requests, got.failed)
    ELSE IF Truthy(_extract_spotify_album_id(url))
         THEN LET got == _get_album_track_ids(cat)
              IN  Expanded(TrackUrls(got.ids), got.requests, got.failed)
    ELSE Expanded(<<>>, <<>>, FALSE)

\* the catalog is an input of an expansion only when a collection is listed
CatalogsFor(client, url) ==
    IF /\ url # None
       /\ client
       /\ is_url(url)
       /\ ~_is_spotify_track_url(url)
       /\ _is_spotify_url(url)
    THEN Catalogs ELSE {NoCatalog}

ExtractInfo(url, cat) ==
    /\ last' = [op |-> "extract_info", url |-> url, cat |-> cat,
                out |-> extract_info(sp, url, cat)]
    /\ UNCHANGED <<sp, song, call>>

NextExpand ==
    \E url \in Identifiers \ {None} : \E cat \in CatalogsFor(sp, url) : ExtractInfo(url, cat)

SpecExpand == Init /\ [][NextExpand]_vars

(***************************************************************************)
(* A Downloader constructed without credentials, under every operation.    *)
(***************************************************************************)
InitDisabled ==
    /\ \E conf \in Credentials : CredentialsAbsent(conf) /\ sp = ClientOf(conf)
    /\ \E k \in 1..Len(QueuedList) :
            song = [s \in Songs |-> NewSong(Window(QueuedList, k, s))]
    /\ call = [c \in Calls |-> IdleCall]
    /\ last = NoOp

NextDisabled == Prefetch \/ NextResolve \/ NextExpand

SpecDisabled == InitDisabled /\ [][NextDisabled]_vars

(***************************************************************************)
(* Properties.                                                             *)
(***************************************************************************)
InFlight == {c \in Calls : call[c].pc = "running"}

\* C1: the resolution tasks in flight at the same time never number more than
\* MAX_PRELOAD_SONGS, however many download_song calls run concurrently.
C1_InFlightWithinCap == Cardinality(InFlight) <= MAX_PRELOAD_SONGS

\* C2: finish_one_song raises to its caller exactly when the provider call
\* failed with a transport error, and returns normally otherwise.
C2_RaisesIffTransportError ==
    last.op = "finish_one_song" => (last.raised <=> last.out.failed)

\* a URL that extract_info expands as a collection: a playlist or album URL
\* that is not also a track URL
IsCollectionUrl(url) ==
    /\ is_url(url)
    /\ ~_is_spotify_track_url(url)
    /\ _is_spotify_url(url)

IdsListed(cat) == SelectSeq(Collection(cat.n, cat.pattern), HasId)

Expansion == last.op = "extract_info"

\* C3: whatever the collection and however the provider behaves, a failing
\* page request included, extract_info returns at most MAX_PLAYLIST_LENGTH
\* identifiers.
C3_ExpansionWithinCap == Expansion => Len(last.out.urls) <= MAX_PLAYLIST_LENGTH

C3_Witness ==
    /\ Expansion
    /\ last.cat.n > MAX_PLAYLIST_LENGTH
    /\ last.out.failed
    /\ Len(last.out.urls) = MAX_PLAYLIST_LENGTH

\* C4 as stated: a collection of more than MAX_PLAYLIST_LENGTH entries expands
\* to exactly the first MAX_PLAYLIST_LENGTH entries, in the provider's order.
C4_FirstEntriesAsStated ==
    (Expansion /\ IsCollectionUrl(last.url) /\ last.cat.n > MAX_PLAYLIST_LENGTH)
        => last.out.urls =
             TrackUrls(SubSeq(Collection(last.cat.n, last.cat.pattern),
                              1, MAX_PLAYLIST_LENGTH))

\* C4 amended: with a client, when no exception interrupts the listing and more
\* than MAX_PLAYLIST_LENGTH entries carry a track id, extract_info returns
\* exactly MAX_PLAYLIST_LENGTH identifiers: those of the first
\* MAX_PLAYLIST_LENGTH entries that carry an id, in the provider's order,
\* repeated ids kept.
C4_FirstIdsUnderCap ==
    (/\ Expansion
     /\ sp
     /\ IsCollectionUrl(last.url)
     /\ ~last.out.failed
     /\ Len(IdsListed(last.cat)) > MAX_PLAYLIST_LENGTH)
        => /\ Len(last.out.urls) = MAX_PLAYLIST_LENGTH
           /\ last.out.urls =
                TrackUrls(SubSeq(IdsListed(last.cat), 1, MAX_PLAYLIST_LENGTH))

C4_Witness ==
    /\ Expansion
    /\ sp
    /\ IsCollectionUrl(last.url)
    /\ ~last.out.failed
    /\ Len(last.out.requests) > 1
    /\ last.cat.pattern = "repeats"
    /\ Len(IdsListed(last.cat)) > MAX_PLAYLIST_LENGTH
    /\ Len(last.out.urls) = MAX_PLAYLIST_LENGTH

\* an invocation that found its song preloaded and returned at once
Skipped(c) == call[c].pc = "returned" /\ ~call[c].task

\* C5: download_song on a song that already carries a source makes no provider
\* call, submits no task and leaves the song as it is, each time it is called.
C5_PreloadedIsNoOp ==
    /\ [](\A c \in Calls : Skipped(c) => (call[c].calls = NoCalls /\ call[c].wrote = 0))
    /\ [][\A c \in Calls :
            (/\ call[c].pc = "idle"
             /\ call'[c].pc # "idle"
             /\ song[call'[c].song].source # None)
                => /\ Skipped(c)'
                   /\ call'[c].calls = NoCalls
                   /\ song' = song]_vars

C5_Witness ==
    \E c \in Calls :
        /\ Skipped(c)
        /\ song[call[c].song].status = "Resolved"
        /\ \E d \in Calls \ {c} : call[d].song = call[c].song /\ call[d].wrote = 1

Synchronous == last.op = "finish_one_song"

IsTrackUrl(identifier) ==
    identifier # None /\ is_url(identifier) /\ _is_spotify_track_url(identifier)

\* C6: a track URL whose catalog entry has no preview_url resolves to the empty
\* result, and no resolve hands back metadata whose audio URL is None or empty.
C6_NoPreviewIsNoResult ==
    Synchronous =>
        /\ IsInfo(last.out.info) => Truthy(last.out.info.url)
        /\ (/\ IsTrackUrl(last.before.identifier)
            /\ last.out.calls # NoCalls
            /\ last.ans.track \in {"nopreview", "emptypreview", "null"})
                => last.out.info = EmptyDict

C6_Witness ==
    /\ Synchronous
    /\ IsTrackUrl(last.before.identifier)
    /\ last.out.calls = <<TrackCall(<<"abc">>)>>
    /\ last.ans.track = "emptypreview"
    /\ last.out.info = EmptyDict

\* a URL that __download_url takes as a direct audio asset: it names an asset
\* host and is not a track URL
IsAssetUrl(identifier) ==
    /\ identifier # None
    /\ is_url(identifier)
    /\ ~_is_spotify_track_url(identifier)
    /\ \E p \in 1..Len(identifier) : identifier[p] \in AssetHosts

\* C7: a direct-audio-asset URL resolves to metadata whose audio URL is the
\* input URL and whose duration is 30 seconds, and no provider call is made,
\* with or without a client.
C7_AssetUrlWrapped ==
    (Synchronous /\ IsAssetUrl(last.before.identifier))
        => /\ IsInfo(last.out.info)
           /\ last.out.info.url = last.before.identifier
           /\ last.out.info.duration = 30
           /\ last.out.calls = NoCalls
           /\ ~last.raised

C7_Witness ==
    /\ Synchronous
    /\ ~sp
    /\ last.before.identifier = IdAsset
    /\ song[last.song].source = IdAsset

\* C8: an exception raised inside a prefetch task is caught inside the task: no
\* task ends with it, download_song does not raise it to its caller, and the
\* step that raises it leaves every other invocation as it was.
C8_TaskExceptionsContained ==
    /\ [](\A c \in Calls : call[c].exc # "escaped" /\ ~call[c].propagated)
    /\ [][\A c \in Calls :
            (call[c].pc = "running" /\ call'[c].pc = "finished" /\ call'[c].failed)
                => \A d \in Calls \ {c} : call'[d] = call[d]]_vars

C8_Witness ==
    \E c \in Calls :
        /\ call[c].pc = "returned"
        /\ call[c].exc = "caught"
        /\ \E d \in Calls \ {c} :
            /\ call[d].pc = "returned"
            /\ call[d].failed
            /\ call[d].exc = "none"
            /\ call[d].calls # NoCalls

\* C9: every prefetch task that ran for an unresolved song wrote an outcome into
\* the song exactly once, and the song is Resolved or Failed afterwards.
C9_OutcomeWrittenOnce ==
    \A c \in Calls :
        (call[c].task /\ call[c].pc \in {"finished", "returned"})
            => /\ call[c].wrote = 1
               /\ song[call[c].song].status \in {"Resolved", "Failed"}

IsFreeText(identifier) == identifier # None /\ ~is_url(identifier)

HasPreview(kind) == kind = "preview"

\* the first candidate of a search answer that has playable audio, 0 if none
FirstPlayable(kinds) ==
    IF \E i \in 1..Len(kinds) : HasPreview(kinds[i])
    THEN CHOOSE i \in 1..Len(kinds) :
            /\ HasPreview(kinds[i])
            /\ \A j \in 1..(i - 1) : ~HasPreview(kinds[j])
    ELSE 0

SearchResultAsRanked ==
    LET k == FirstPlayable(last.ans.search.kinds)
    IN  IF last.ans.search.error \/ k = 0
        THEN last.out.info = EmptyDict
        ELSE /\ IsInfo(last.out.info)
             /\ last.out.info.url = PreviewUrlOf(CandidateId(k))
             /\ last.out.info.title = <<"name:">> \o CandidateId(k)

IsOtherUrl(identifier) ==
    /\ identifier # None
    /\ is_url(identifier)
    /\ ~_is_spotify_track_url(identifier)
    /\ \A p \in 1..Len(identifier) : identifier[p] \notin AssetHosts

\* C11: a playlist or album URL, or a URL of no supported shape, resolves to the
\* empty result at once: no provider call is made and no collection is listed.
C11_OtherUrlIsNoResult ==
    (Synchronous /\ IsOtherUrl(last.before.identifier))
        => /\ last.out.info = EmptyDict
           /\ last.out.calls = NoCalls
           /\ ~last.raised

C11_Witness ==
    /\ Synchronous
    /\ sp
    /\ last.before.identifier = IdPlaylist
    /\ last.out.info = EmptyDict
    /\ song[last.song].status = "Failed"

IsPlaylistUrl(url) == IsCollectionUrl(url) /\ ReSearch(PlaylistPrefixes, url) # 0

\* the page size of the listing a collection URL leads to
PageSizeOf(url) == IF IsPlaylistUrl(url) THEN PlaylistPageLimit ELSE AlbumPageLimit

EntriesBefore(cat, k) == SubSeq(Collection(cat.n, cat.pattern), 1, Min(k, cat.n))

\* the k-th page request of a listing is made: the pages before it were full
\* and, on an album, held no null item
RequestMade(url, cat, k) ==
    /\ k >= 1
    /\ cat.n >= (k - 1) * PageSizeOf(url)
    /\ IsPlaylistUrl(url)
        \/ \A i \in 1..((k - 1) * PageSizeOf(url)) : Entry(cat.pattern, i) # NullItem

FirstUpTo(ids, n) == SubSeq(ids, 1, Min(Len(ids), n))

\* C12: when a page request fails, the expansion stops there, raises nothing
\* and returns the identifiers of the pages fetched before it, in order, cut
\* to MAX_PLAYLIST_LENGTH.
C12_PartialOnPageFailure ==
    (/\ Expansion
     /\ sp
     /\ IsCollectionUrl(last.url)
     /\ RequestMade(last.url, last.cat, last.cat.failAt))
        => /\ Len(last.out.requests) = last.cat.failAt
           /\ last.out.failed
           /\ last.out.urls =
                TrackUrls(FirstUpTo(
                    SelectSeq(EntriesBefore(last.cat,
                                            (last.cat.failAt - 1) * PageSizeOf(last.url)),
                              HasId),
                    MAX_PLAYLIST_LENGTH))

C12_Witness ==
    /\ Expansion
    /\ sp
    /\ last.url = IdAlbum
    /\ last.cat.failAt = 2
    /\ last.cat.pattern = "holes"
    /\ last.cat.n > PlaylistPageLimit
    /\ Len(last.out.requests) = 2
    /\ Len(last.out.urls) = 37

\* C13: a Downloader constructed without credentials has no client and never
\* gets one: whatever extract_info, finish_one_song and download_song calls
\* follow, the client is still None, no provider call was made, and every
\* track lookup, search and collection listing came back empty.
C13_DisabledStaysDisabled ==
    /\ \A conf \in Credentials : CredentialsAbsent(conf) => ~ClientOf(conf)
    /\ ~sp
    /\ \A c \in Calls : call[c].calls = NoCalls
    /\ \A s \in Songs : song[s].status = "Resolved" => IsAssetUrl(song[s].identifier)
    /\ Synchronous =>
        /\ last.out.calls = NoCalls
        /\ (IsTrackUrl(last.before.identifier) \/ IsFreeText(last.before.identifier))
            => last.out.info = EmptyDict
    /\ Expansion => (last.out.urls = <<>> /\ last.out.requests = <<>>)

C13_Witness ==
    /\ ~sp
    /\ Expansion
    /\ last.url = IdPlaylist
    /\ \E c \in Calls :
        /\ call[c].pc = "returned"
        /\ call[c].task
        /\ song[call[c].song].identifier = IdTrack
        /\ song[call[c].song].status = "Failed"
    /\ \E s \in Songs : song[s].identifier = IdText /\ song[s].status = "Failed"

\* C14: without a client, finish_one_song on a track URL or on free text does
\* not return normally with the empty result: it raises a resolution failure
\* to its caller.
C14_DisabledClientRaises ==
    (/\ Synchronous
     /\ ~sp
     /\ IsTrackUrl(last.before.identifier) \/ IsFreeText(last.before.identifier))
        => last.raised

\* a task submitted by download_song that has not finished yet
Pending(c) == call[c].task /\ call[c].pc \in {"queued", "running"}

\* C15: a song never has two resolution tasks at once: of two download_song
\* calls made for the same unresolved song, at most one submits a task that
\* resolves the song and writes its outcome.
C15_OneTaskPerSong ==
    \A c, d \in Calls :
        (c # d /\ Pending(c) /\ Pending(d)) => call[c].song # call[d].song

\* C16: Resolved is terminal: once a song is Resolved, no later finish_one_song
\* changes its status, its audio URL or its metadata.
C16_ResolvedIsTerminal ==
    [][\A s \in Songs : song[s].status = "Resolved" => song'[s] = song[s]]_vars

\* C17: a listing asks for no further page once the identifiers accumulated
\* from the pages before it number MAX_PLAYLIST_LENGTH or more.
C17_NoPageBeyondCap ==
    (Expansion /\ sp /\ IsCollectionUrl(last.url))
        => \A k \in 2..Len(last.out.requests) :
              Len(SelectSeq(EntriesBefore(last.cat, (k - 1) * PageSizeOf(last.url)),
                            HasId)) < MAX_PLAYLIST_LENGTH

\* the track id a track URL names: the text that follows its first track prefix
TrackIdNamed(url) ==
    LET p == CHOOSE q \in 1..Len(url) :
                /\ url[q] \in TrackPrefixes
                /\ \A r \in 1..(q - 1) : url[r] \notin TrackPrefixes
    IN  <<url[p + 1]>>

CanonicalTrackUrl(tid) == <<"https://", "open.spotify.com/track/">> \o tid

IsUnsupportedUrl(url) == is_url(url) /\ ~_is_spotify_url(url)

NothingExpanded == last.out.urls = <<>> /\ last.out.requests = <<>>

\* C18 as stated: a track URL expands to the one URL of its track, free text,
\* the empty string and an unsupported URL expand to nothing, and no page is
\* requested in any of these cases.
C18_TrackUrlAsStated ==
    Expansion =>
        /\ IsTrackUrl(last.url)
            => /\ last.out.urls = <<CanonicalTrackUrl(TrackIdNamed(last.url))>>
               /\ last.out.requests = <<>>
        /\ (IsFreeText(last.url) \/ last.url = EmptyStr \/ IsUnsupportedUrl(last.url))
            => NothingExpanded

\* C18: with a client, a track URL expands to the one URL of its track;
\* without a client it expands to nothing; free text, the empty string and an
\* unsupported URL expand to nothing; no page is requested in any of these
\* cases.
C18_TrackUrlWithClient ==
    Expansion =>
        /\ (IsTrackUrl(last.url) /\ sp)
            => /\ last.out.urls = <<CanonicalTrackUrl(TrackIdNamed(last.url))>>
               /\ last.out.requests = <<>>
        /\ (IsTrackUrl(last.url) /\ ~sp) => NothingExpanded
        /\ (IsFreeText(last.url) \/ last.url = EmptyStr \/ IsUnsupportedUrl(last.url))
            => NothingExpanded

C18_Witness ==
    /\ Expansion
    /\ sp
    /\ last.url = IdTrackPlay
    /\ last.out.urls = <<<<"https://", "open.spotify.com/track/", "xyz">>>>

\* C19: a listing asks for the pages at offsets 0, L, 2L, ... in turn, each
\* once, makes at most n \div L + 1 requests for a collection of n entries and
\* page size L, and, when no request fails, ends on the first page that is
\* empty or shorter than L.
C19_ListingTerminates ==
    (Expansion /\ sp /\ IsCollectionUrl(last.url))
        => LET asked == last.out.requests
               L == PageSizeOf(last.url)
           IN  /\ Len(asked) >= 1
               /\ \A i \in 1..Len(asked) : asked[i] = (i - 1) * L
               /\ Len(asked) <= (last.cat.n \div L) + 1
               /\ ~last.out.failed => Len(asked) = (last.cat.n \div L) + 1

C19_Witness ==
    /\ Expansion
    /\ sp
    /\ last.url = IdPlaylist
    /\ last.cat.n = 2 * PlaylistPageLimit + 1
    /\ ~last.out.failed
    /\ last.out.requests = <<0, PlaylistPageLimit, 2 * PlaylistPageLimit>>

\* C20: every URL an expansion returns is a track URL that carries the id it
\* was built from: the id read back from the URL built for an id of the
\* catalog is that id, and resolving the URL looks the track up by that id.
C20_ExpandedAreTrackUrls ==
    Expansion =>
        /\ \A i \in 1..Len(last.out.urls) :
            LET u == last.out.urls[i]
                t == TrackIdNamed(u)
            IN  /\ IsTrackUrl(u)
                /\ _extract_spotify_track_id(u) = t
                /\ IsCollectionUrl(last.url)
                    => \E j \in 1..last.cat.n : Entry(last.cat.pattern, j) = t
                /\ Resolve(TRUE, u, [NoAnswer EXCEPT !.track = "preview"]).calls
                       = <<TrackCall(t)>>
        /\ \A j \in 1..last.cat.n :
            LET e == Entry(last.cat.pattern, j)
            IN  HasId(e) => _extract_spotify_track_id(_build_spotify_track_url(e)) = e

C20_Witness ==
    /\ Expansion
    /\ sp
    /\ last.url = IdAlbum
    /\ last.cat.pattern = "repeats"
    /\ Len(last.out.urls) = MAX_PLAYLIST_LENGTH
    /\ last.out.urls[2] = <<"https://", "open.spotify.com/track/", "2">>

====
